---- MODULE Spec2Model ----
(***************************************************************************)
(* yajler: the tree builder of c_src/yajler_nif.c.  decode_1 sets up a     *)
(* state_t with a dummy top level container, parse_json drives the yajl    *)
(* parser over the input, and yajl calls one handle_* callback per JSON    *)
(* token.  The callbacks build Erlang terms bottom-up on a linked list of  *)
(* container_t frames.                                                     *)
(***************************************************************************)
EXTENDS Integers, Sequences, FiniteSets, TLC

(***************************************************************************)
(* Bounds of the model.                                                    *)
(***************************************************************************)
\* the weight of the events delivered to the callbacks in one decode
MaxCost == 48
\* the weight of an event that is not filler (see Rich); a filler weighs 1
RichCost == 14
\* events delivered by the source that checks neither keys nor markers
MaxRawEvents == 5

(***************************************************************************)
(* Program constants.                                                      *)
(***************************************************************************)
\* handle_start: c->arraysz = 16
InitialSize == 16
\* decode_1: container_t c = { 0, 1, &term, 0, NULL }
RootSize == 1

(***************************************************************************)
(* Erlang terms (ERL_NIF_TERM).  Every term is a record [t, v].            *)
(***************************************************************************)
\* the content of memory that was never written (an uninitialised slot)
Garbage == [t |-> "garbage", v |-> <<>>]
NoTerm == [t |-> "none", v |-> <<>>]
MkAtom(a) == [t |-> "atom", v |-> a]
MkLong(i) == [t |-> "int", v |-> i]
MkDouble(d) == [t |-> "double", v |-> d]
MkBinary(bytes) == [t |-> "binary", v |-> bytes]
MkTuple2(a, b) == [t |-> "tuple", v |-> <<a, b>>]
\* enif_make_list_from_array(env, arr, cnt): the list of arr[0..cnt-1]
MkListFromArray(arr, cnt) == [t |-> "list", v |-> SubSeq(arr, 1, cnt)]

(***************************************************************************)
(* strncpy(dst, src, n) where src holds n bytes: bytes are copied up to    *)
(* the first zero byte, and the rest of the n bytes of dst are set to 0.   *)
(***************************************************************************)
FirstZero(s) ==
  IF \E i \in 1..Len(s) : s[i] = 0
  THEN CHOOSE i \in 1..Len(s) : s[i] = 0 /\ \A j \in 1..(i - 1) : s[j] # 0
  ELSE Len(s) + 1

Strncpy(s, n) == [i \in 1..n |-> IF i < FirstZero(s) THEN s[i] ELSE 0]

(***************************************************************************)
(* (long)integerVal in handle_integer.  On the LP64 builds of the NIF,     *)
(* long and long long are both 64 bits wide, so every value yajl parses    *)
(* is kept; the model's integers are far inside that range.                *)
(***************************************************************************)
ToLong(i) == i

(***************************************************************************)
(* Inputs: the tokens of the document.                                     *)
(***************************************************************************)
\* the key of the filler pairs
KeyK == <<107>>
Strings == {<<97>>, <<97, 0, 98>>}
Keys == {KeyK, <<97, 0, 98>>}
Ints == {1, 2}
\* doubles in tenths: 25 stands for 2.5
Doubles == {25}

Ev(k, s, n, oom) == [k |-> k, s |-> s, n |-> n, oom |-> oom]

\* A step is filler when it is a null, a key KeyK or an end marker and no
\* allocation fails in it.
Rich(e) ==
  \/ ~(e.k \in {"null", "end_map", "end_array"} \/ (e.k = "map_key" /\ e.s = KeyK))
  \/ e.oom # 0

Cost(e) == IF Rich(e) THEN RichCost ELSE 1

\* the weight of the events evs: Len(evs) + (RichCost - 1) * (the rich ones)
Spent(evs) ==
  Len(evs) + (RichCost - 1) * Cardinality({i \in DOMAIN evs : Rich(evs[i])})

VARIABLES
  pc,        \* where decode_1 is: "init", "parse" (in yajl_parse), "finish"
             \* (yajl_parse was stopped by a callback), "done", "crashed"
  source,    \* "yajl": the events come from yajl; "raw": the callbacks are driven directly
  ystate,    \* yajl's parser state stack, one entry per open container
  events,    \* the events delivered so far, each with the allocation that failed in it
  stack,     \* st->c and its ->next chain, innermost frame last
  ys,        \* yajl_status in parse_json: "none", "ok", "error", "canceled"
  ret,       \* return value of the last callback
  freeLog,   \* the enif_free calls made so far
  lastCopy,  \* source and destination bytes of the last strncpy
  lastClosed,\* the last container closed: the event that opened it, its term,
             \* its key flag and count at the close, the number of the end event
  result,    \* what decode_1 returned
  alloc_funcs,\* the static alloc_funcs; of its fields only ctx is ever written
  ctxAccess, \* the accesses to alloc_funcs.ctx so far: which call, "write" or "read"
  calls      \* two decode_1 calls that run on two scheduler threads, see below

vars == <<pc, source, ystate, events, stack, ys, ret, freeLog, lastCopy, lastClosed, result,
          alloc_funcs, ctxAccess, calls>>

\* the variables of the two concurrent calls
shared == <<alloc_funcs, ctxAccess, calls>>

\* the variables of the one call that is followed in detail
solo == <<pc, source, ystate, events, stack, ys, ret, freeLog, lastCopy, lastClosed, result>>

\* NULL, the ctx of alloc_funcs as it is initialised
NullCtx == 0

\* st->env of call p, p = 1, 2
Env(p) == p

\* no call is modelled by the variable calls
NoCalls == <<>>

Access(p, op) == [call |-> p, op |-> op]

(***************************************************************************)
(* container_t.  array holds arraysz slots; isnull says array == NULL.     *)
(* id names the frame: 0 for the dummy top level container, otherwise the  *)
(* number of the start event that created it.                              *)
(***************************************************************************)
Frame(id, count, arraysz, array, isnull, key) ==
  [id |-> id, count |-> count, arraysz |-> arraysz, array |-> array,
   isnull |-> isnull, key |-> key]

\* decode_1: container_t c = { 0, 1, &term, 0, NULL } with term uninitialised
RootFrame == Frame(0, 0, RootSize, <<Garbage>>, FALSE, 0)

NoResult == [tag |-> "none", term |-> NoTerm, msg |-> ""]

NoCopy == [src |-> <<>>, dst |-> <<>>, done |-> FALSE]

NoClosed == [kind |-> "none", term |-> NoTerm, key |-> 0, n |-> 0, at |-> 0]

InitCommon ==
  /\ alloc_funcs = [ctx |-> NullCtx]
  /\ ctxAccess = {}
  /\ calls = NoCalls
  /\ pc = "init"
  /\ ystate = <<"start">>
  /\ events = <<>>
  /\ stack = <<RootFrame>>
  /\ ys = "none"
  /\ ret = 1
  /\ freeLog = <<>>
  /\ lastCopy = NoCopy
  /\ lastClosed = NoClosed
  /\ result = NoResult

Init == InitCommon /\ source = "yajl"

InitRaw == InitCommon /\ source = "raw"

Top(stk) == stk[Len(stk)]


(***************************************************************************)
(* The Event Source.  yajl keeps a stack of parser states, one per open    *)
(* container: "start" (no value yet), "complete" (the top level value was  *)
(* read), "array" (a value or ] may follow), "map_key" (a key or } may     *)
(* follow), "map_val" (the value of the last key must follow).             *)
(***************************************************************************)
ValueKinds == {"null", "boolean", "integer", "double", "string"}

StartKinds == {"start_array", "start_map"}

EndKinds == {"end_array", "end_map"}

\* the state of a container after it received a value
YAfterValue(y) ==
  CASE y = "start" -> "complete"
    [] y = "map_val" -> "map_key"
    [] OTHER -> y

YSetTop(yst, y) == [yst EXCEPT ![Len(yst)] = y]

\* yajl's parser state after event e
YNext(yst, e) ==
  LET top == yst[Len(yst)] IN
  CASE e.k \in ValueKinds -> YSetTop(yst, YAfterValue(top))
    [] e.k = "map_key" -> YSetTop(yst, IF top = "map_key" THEN "map_val" ELSE top)
    [] e.k = "start_array" -> Append(yst, "array")
    [] e.k = "start_map" -> Append(yst, "map_key")
    [] OTHER -> LET rest == SubSeq(yst, 1, Len(yst) - 1)
                IN IF rest = <<>> THEN rest ELSE YSetTop(rest, YAfterValue(rest[Len(rest)]))

\* the tokens yajl accepts next: anything else is a parse error, not an event
YajlEmits(e) ==
  LET top == ystate[Len(ystate)] IN
  CASE e.k \in ValueKinds \cup StartKinds -> top \in {"start", "map_val", "array"}
    [] e.k = "map_key" -> top = "map_key"
    [] e.k = "end_map" -> top = "map_key"
    [] OTHER -> top = "array"

\* a source that only keeps the markers nested and the top level single
RawEmits(e) ==
  LET top == ystate[Len(ystate)] IN
  CASE e.k \in ValueKinds \cup StartKinds -> top # "complete"
    [] OTHER -> Len(ystate) > 1

\* yajl_complete_parse: ok exactly when one complete top level value was read
YajlComplete(yst) == IF yst = <<"complete">> THEN "ok" ELSE "error"

\* the event by which frame i of the stack was opened
OpenedBy(yst, i) ==
  IF i = 1 THEN "root" ELSE IF yst[i] = "array" THEN "array" ELSE "map"

Deliver(e) ==
  /\ pc = "parse"
  /\ Spent(events) + Cost(e) <= MaxCost
  /\ source = "raw" => Len(events) < MaxRawEvents
  /\ IF source = "yajl" THEN YajlEmits(e) ELSE RawEmits(e)

(***************************************************************************)
(* add_element.  fail says whether enif_realloc returns NULL, should the   *)
(* array be grown.  The result is the new chain, or ub when the code       *)
(* writes through a null pointer, reallocates the top level slot (which    *)
(* is not heap memory) or reads array[-1].                                 *)
(***************************************************************************)
\* mutant: a new block is handed out and the old content is not copied
ReallocFresh(array, sz) == [i \in 1..sz |-> Garbage]

\* enif_realloc(array, sz): the old content, then uninitialised slots
Realloc(array, sz) == [i \in 1..sz |-> IF i <= Len(array) THEN array[i] ELSE Garbage]

Grows(stk) == stk # <<>> /\ Top(stk).count >= Top(stk).arraysz

\* mutant: a value whose key is already in the container replaces the value
\* of that earlier pair, and the new key slot is dropped
AddElementDedup(stk, t, fail) ==
  IF stk = <<>> THEN [ub |-> FALSE, stack |-> stk]
  ELSE
    LET n == Len(stk)
        c == stk[n]
        grow == c.count >= c.arraysz
        c1 == IF grow
              THEN [c EXCEPT !.arraysz = c.arraysz * 2,
                             !.array = Realloc(c.array, c.arraysz * 2),
                             !.isnull = fail]
              ELSE c
        dup == IF c.key # 0 /\ c.count > 0
               THEN {j \in 1..(c.count - 1) :
                       c.array[j].t = "tuple" /\ c.array[j].v[1] = c.array[c.count]}
               ELSE {}
    IN IF (grow /\ c.id = 0) \/ c1.isnull \/ (c.key # 0 /\ c.count = 0)
       THEN [ub |-> TRUE, stack |-> stk]
       ELSE IF c.key # 0 /\ dup # {}
       THEN LET j == CHOOSE j \in dup : TRUE
            IN [ub |-> FALSE,
                stack |-> [stk EXCEPT ![n] =
                             [c1 EXCEPT !.array[j] = MkTuple2(c.array[c.count], t),
                                        !.count = c.count - 1,
                                        !.key = 0]]]
       ELSE IF c.key # 0
       THEN [ub |-> FALSE,
             stack |-> [stk EXCEPT ![n] =
                          [c1 EXCEPT !.array[c.count] = MkTuple2(c.array[c.count], t),
                                     !.key = 0]]]
       ELSE [ub |-> FALSE,
             stack |-> [stk EXCEPT ![n] =
                          [c1 EXCEPT !.array[c.count + 1] = t,
                                     !.count = c.count + 1]]]

\* mutant: a value fused with its key is counted as a second element
AddElementCountsTwice(stk, t, fail) ==
  IF stk = <<>> THEN [ub |-> FALSE, stack |-> stk]
  ELSE
    LET n == Len(stk)
        c == stk[n]
        grow == c.count >= c.arraysz
        c1 == IF grow
              THEN [c EXCEPT !.arraysz = c.arraysz * 2,
                             !.array = Realloc(c.array, c.arraysz * 2),
                             !.isnull = fail]
              ELSE c
    IN IF (grow /\ c.id = 0) \/ c1.isnull \/ (c.key # 0 /\ c.count = 0)
       THEN [ub |-> TRUE, stack |-> stk]
       ELSE IF c.key # 0
       THEN [ub |-> FALSE,
             stack |-> [stk EXCEPT ![n] =
                          [c1 EXCEPT !.array[c.count] = MkTuple2(c.array[c.count], t),
                                     !.count = c.count + 1,
                                     !.key = 0]]]
       ELSE [ub |-> FALSE,
             stack |-> [stk EXCEPT ![n] =
                          [c1 EXCEPT !.array[c.count + 1] = t,
                                     !.count = c.count + 1]]]

\* mutant: only scalars and strings are fused with a pending key, a finished
\* container is stored in a slot of its own
AddElementScalarFuse(stk, t, fail) ==
  IF stk = <<>> THEN [ub |-> FALSE, stack |-> stk]
  ELSE
    LET n == Len(stk)
        c == stk[n]
        grow == c.count >= c.arraysz
        c1 == IF grow
              THEN [c EXCEPT !.arraysz = c.arraysz * 2,
                             !.array = Realloc(c.array, c.arraysz * 2),
                             !.isnull = fail]
              ELSE c
    IN IF (grow /\ c.id = 0) \/ c1.isnull \/ (c.key # 0 /\ c.count = 0)
       THEN [ub |-> TRUE, stack |-> stk]
       ELSE IF c.key # 0 /\ t.t # "list"
       THEN [ub |-> FALSE,
             stack |-> [stk EXCEPT ![n] =
                          [c1 EXCEPT !.array[c.count] = MkTuple2(c.array[c.count], t),
                                     !.key = 0]]]
       ELSE [ub |-> FALSE,
             stack |-> [stk EXCEPT ![n] =
                          [c1 EXCEPT !.array[c.count + 1] = t,
                                     !.count = c.count + 1]]]

\* mutant: the array is grown one element early
AddElementEagerGrow(stk, t, fail) ==
  IF stk = <<>> THEN [ub |-> FALSE, stack |-> stk]
  ELSE
    LET n == Len(stk)
        c == stk[n]
        grow == c.count + 1 >= c.arraysz
        c1 == IF grow
              THEN [c EXCEPT !.arraysz = c.arraysz * 2,
                             !.array = Realloc(c.array, c.arraysz * 2),
                             !.isnull = fail]
              ELSE c
    IN IF (grow /\ c.id = 0) \/ c1.isnull \/ (c.key # 0 /\ c.count = 0)
       THEN [ub |-> TRUE, stack |-> stk]
       ELSE IF c.key # 0
       THEN [ub |-> FALSE,
             stack |-> [stk EXCEPT ![n] =
                          [c1 EXCEPT !.array[c.count] = MkTuple2(c.array[c.count], t),
                                     !.key = 0]]]
       ELSE [ub |-> FALSE,
             stack |-> [stk EXCEPT ![n] =
                          [c1 EXCEPT !.array[c.count + 1] = t,
                                     !.count = c.count + 1]]]

\* mutant: the array is grown one element late
AddElementLateGrow(stk, t, fail) ==
  IF stk = <<>> THEN [ub |-> FALSE, stack |-> stk]
  ELSE
    LET n == Len(stk)
        c == stk[n]
        grow == c.count > c.arraysz
        c1 == IF grow
              THEN [c EXCEPT !.arraysz = c.arraysz * 2,
                             !.array = Realloc(c.array, c.arraysz * 2),
                             !.isnull = fail]
              ELSE c
    IN IF (grow /\ c.id = 0) \/ c1.isnull \/ (c.key # 0 /\ c.count = 0)
       THEN [ub |-> TRUE, stack |-> stk]
       ELSE IF c.key # 0
       THEN [ub |-> FALSE,
             stack |-> [stk EXCEPT ![n] =
                          [c1 EXCEPT !.array[c.count] = MkTuple2(c.array[c.count], t),
                                     !.key = 0]]]
       ELSE [ub |-> FALSE,
             stack |-> [stk EXCEPT ![n] =
                          [c1 EXCEPT !.array[c.count + 1] = t,
                                     !.count = c.count + 1]]]

AddElement(stk, t, fail) ==
  IF stk = <<>> THEN [ub |-> FALSE, stack |-> stk]
  ELSE
    LET n == Len(stk)
        c == stk[n]
        grow == c.count >= c.arraysz
        c1 == IF grow
              THEN [c EXCEPT !.arraysz = c.arraysz * 2,
                             !.array = Realloc(c.array, c.arraysz * 2),
                             !.isnull = fail]
              ELSE c
    IN IF (grow /\ c.id = 0) \/ c1.isnull \/ (c.key # 0 /\ c.count = 0)
       THEN [ub |-> TRUE, stack |-> stk]
       ELSE IF c.key # 0
       THEN [ub |-> FALSE,
             stack |-> [stk EXCEPT ![n] =
                          [c1 EXCEPT !.array[c.count] = MkTuple2(c.array[c.count], t),
                                     !.key = 0]]]
       ELSE [ub |-> FALSE,
             stack |-> [stk EXCEPT ![n] =
                          [c1 EXCEPT !.array[c.count + 1] = t,
                                     !.count = c.count + 1]]]

(***************************************************************************)
(* How a callback ends.                                                    *)
(***************************************************************************)
\* the callback returned r (0 makes yajl_parse stop with client_canceled)
Returned(e, r, stk) ==
  /\ events' = Append(events, e)
  /\ ystate' = IF r = 1 THEN YNext(ystate, e) ELSE ystate
  /\ stack' = stk
  /\ ret' = r
  /\ pc' = IF r = 1 THEN "parse" ELSE "finish"
  /\ UNCHANGED <<source, ys, result>>
  /\ UNCHANGED shared

\* the callback dereferenced a null pointer: the emulator dies in it
Crashed(e) ==
  /\ events' = Append(events, e)
  /\ pc' = "crashed"
  /\ UNCHANGED <<source, ystate, stack, ys, ret, freeLog, lastClosed, result>>
  /\ UNCHANGED shared

\* add_element(st, t); return 1
AddAndReturn(e, t) ==
  /\ e.oom = 2 => Grows(stack)
  /\ LET r == AddElement(stack, t, e.oom = 2)
     IN IF r.ub
        THEN Crashed(e)
        ELSE Returned(e, 1, r.stack) /\ UNCHANGED <<freeLog, lastClosed>>

HandleNull ==
  \E oom \in {0, 2} :
    LET e == Ev("null", <<>>, 0, oom)
    IN Deliver(e) /\ AddAndReturn(e, MkAtom("undefined")) /\ UNCHANGED lastCopy

HandleBoolean ==
  \E boolVal \in {0, 1}, oom \in {0, 2} :
    LET e == Ev("boolean", <<>>, boolVal, oom)
    IN /\ Deliver(e)
       /\ IF boolVal # 0
          THEN AddAndReturn(e, MkAtom("true"))
          ELSE AddAndReturn(e, MkAtom("false"))
       /\ UNCHANGED lastCopy

HandleInteger ==
  \E integerVal \in Ints, oom \in {0, 2} :
    LET e == Ev("integer", <<>>, integerVal, oom)
    IN Deliver(e) /\ AddAndReturn(e, MkLong(ToLong(integerVal))) /\ UNCHANGED lastCopy

HandleDouble ==
  \E doubleVal \in Doubles, oom \in {0, 2} :
    LET e == Ev("double", <<>>, doubleVal, oom)
    IN Deliver(e) /\ AddAndReturn(e, MkDouble(doubleVal)) /\ UNCHANGED lastCopy


(***************************************************************************)
(* handle_string.  oom = 1: enif_alloc_binary fails and the callback       *)
(* returns 0.  Otherwise the bytes are copied with strncpy into the new    *)
(* binary, which becomes the element.                                      *)
(***************************************************************************)
HandleString ==
  \E stringVal \in Strings, oom \in {0, 1, 2} :
    LET e == Ev("string", stringVal, 0, oom)
        stringLen == Len(stringVal)
        data == Strncpy(stringVal, stringLen)
    IN /\ Deliver(e)
       /\ IF oom = 1
          THEN /\ Returned(e, 0, stack)
               /\ UNCHANGED <<freeLog, lastCopy, lastClosed>>
          ELSE /\ AddAndReturn(e, MkBinary(data))
               /\ lastCopy' = [src |-> stringVal, dst |-> data, done |-> TRUE]

(***************************************************************************)
(* handle_map_key.  The result of enif_alloc_binary is not looked at: when *)
(* it fails (oom = 1), strncpy writes through the uninitialised bin.data   *)
(* and enif_make_binary reads the uninitialised bin.  The emulator dies,   *)
(* or the write lands somewhere and the key is an indeterminate term.      *)
(***************************************************************************)
\* mutant: the key flag is not set
SetKeyForgotten(stk) == stk

\* st->c->key = 1
SetKey(stk) == IF stk = <<>> THEN stk ELSE [stk EXCEPT ![Len(stk)].key = 1]

HandleMapKey ==
  \E stringVal \in Keys, oom \in {0, 1, 2} :
    LET e == Ev("map_key", stringVal, 0, oom)
        stringLen == Len(stringVal)
        data == Strncpy(stringVal, stringLen)
        t == IF oom = 1 THEN Garbage ELSE MkBinary(data)
        r == AddElement(stack, t, oom = 2)
    IN /\ Deliver(e)
       /\ oom = 2 => Grows(stack)
       /\ \/ /\ oom = 1 \/ r.ub
             /\ Crashed(e)
             /\ UNCHANGED lastCopy
          \/ /\ ~r.ub
             /\ Returned(e, 1, SetKey(r.stack))
             /\ lastCopy' = IF oom = 1 THEN lastCopy
                            ELSE [src |-> stringVal, dst |-> data, done |-> TRUE]
             /\ UNCHANGED <<freeLog, lastClosed>>

(***************************************************************************)
(* handle_start.  oom = 1: the container_t allocation fails and c->next    *)
(* is written through NULL.  oom = 2: the elements array allocation fails  *)
(* and the frame is linked with array == NULL.                             *)
(***************************************************************************)
\* mutant: c->key is left as enif_alloc returned it
NewFrameNoKeyInit(id, isnull) ==
  Frame(id, 0, InitialSize,
        IF isnull THEN <<>> ELSE [i \in 1..InitialSize |-> Garbage], isnull, 1)

NewFrame(id, isnull) ==
  Frame(id, 0, InitialSize,
        IF isnull THEN <<>> ELSE [i \in 1..InitialSize |-> Garbage], isnull, 0)

HandleStart(kind) ==
  \E oom \in {0, 1, 2} :
    LET e == Ev(kind, <<>>, 0, oom)
    IN /\ Deliver(e)
       /\ IF oom = 1
          THEN Crashed(e)
          ELSE /\ Returned(e, 1, Append(stack, NewFrame(Len(events) + 1, oom = 2)))
               /\ UNCHANGED <<freeLog, lastClosed>>
       /\ UNCHANGED lastCopy

HandleStartMap == HandleStart("start_map")

HandleStartArray == HandleStart("start_array")

(***************************************************************************)
(* handle_end: unlink the innermost frame, add the list of its elements to *)
(* the frame below, free the array and the frame.                          *)
(***************************************************************************)
\* mutant: enif_free(c) is forgotten
FreeCallsArrayOnly(c) ==
  IF c.isnull THEN <<>> ELSE <<[what |-> "array", id |-> c.id]>>

FreeCalls(c) ==
  (IF c.isnull THEN <<>> ELSE <<[what |-> "array", id |-> c.id]>>)
    \o <<[what |-> "frame", id |-> c.id]>>

EndTerm(c) == MkListFromArray(c.array, c.count)

HandleEnd(kind) ==
  \E oom \in {0, 2} :
    LET e == Ev(kind, <<>>, 0, oom)
        n == Len(stack)
        c == stack[n]
        rest == SubSeq(stack, 1, n - 1)
        t == EndTerm(c)
        r == AddElement(rest, t, oom = 2)
    IN /\ Deliver(e)
       /\ oom = 2 => Grows(rest)
       /\ IF c.id = 0 \/ r.ub
          THEN Crashed(e)
          ELSE /\ Returned(e, 1, r.stack)
               /\ freeLog' = freeLog \o FreeCalls(c)
               /\ lastClosed' = [kind |-> OpenedBy(ystate, n), term |-> t,
                                 key |-> c.key, n |-> c.count,
                                 at |-> Len(events) + 1]
       /\ UNCHANGED lastCopy

HandleEndMap == HandleEnd("end_map")

HandleEndArray == HandleEnd("end_array")

(***************************************************************************)
(* parse_json and decode_1.                                                *)
(***************************************************************************)
\* alloc_funcs.ctx = st->env; yajl_alloc, which reads alloc_funcs; with a NULL
\* handle yajl_config writes through NULL
ParseJsonStart ==
  /\ pc = "init"
  /\ \E fail \in BOOLEAN : pc' = IF fail THEN "crashed" ELSE "parse"
  /\ alloc_funcs' = [alloc_funcs EXCEPT !.ctx = Env(1)]
  /\ ctxAccess' = ctxAccess \cup {Access(1, "write"), Access(1, "read")}
  /\ UNCHANGED <<source, ystate, events, stack, ys, ret, freeLog, lastCopy, lastClosed, result>>
  /\ UNCHANGED calls

\* ys = yajl_parse(...); if (ys == yajl_status_ok) ys = yajl_complete_parse(yh).
\* yajl_parse ends with client_canceled when a callback returned 0, with an
\* error when the next token is not one yajl accepts (~parseOk), and ok when
\* the input ends.
ParseStatusNoComplete(parseOk, r, yst) ==
  IF r = 0 THEN "canceled" ELSE IF parseOk THEN "ok" ELSE "error"

ParseStatus(parseOk, r, yst) ==
  IF r = 0 THEN "canceled" ELSE IF parseOk THEN YajlComplete(yst) ELSE "error"

\* mutant: only the innermost frame is released
CleanupInnermost(stk) == IF Len(stk) <= 1 THEN <<>> ELSE FreeCalls(Top(stk))

\* the enif_free calls of cleanup_containers(c)
RECURSIVE CleanupContainers(_)
CleanupContainers(stk) ==
  IF Len(stk) <= 1
  THEN <<>>
  ELSE FreeCalls(Top(stk)) \o CleanupContainers(SubSeq(stk, 1, Len(stk) - 1))

\* yajl_get_error: the text of the error
YajlGetError(status) ==
  IF status = "canceled" THEN "client canceled parse via callback return value"
  ELSE "parse error"

\* the err parse_json returns; "" stands for NULL
ParseJsonErr(status, msgNull) ==
  IF status # "ok"
  THEN IF msgNull THEN "Unknown YAJL error" ELSE YajlGetError(status)
  ELSE ""

\* mutant: the term built so far is handed out with the error
Decode1ReturnPartial(err, term) ==
  IF err # ""
  THEN [tag |-> "error", term |-> term, msg |-> err]
  ELSE [tag |-> "ok", term |-> term, msg |-> ""]

\* decode_1: {error, Msg} or {ok, term}
Decode1Return(err, term) ==
  IF err # ""
  THEN [tag |-> "error", term |-> NoTerm, msg |-> err]
  ELSE [tag |-> "ok", term |-> term, msg |-> ""]

ParseJsonFinish ==
  /\ pc \in {"parse", "finish"}
  /\ \E parseOk, msgNull \in BOOLEAN :
       LET status == ParseStatus(parseOk, ret, ystate)
       IN /\ msgNull => status # "ok"
          /\ ys' = status
          /\ result' = Decode1Return(ParseJsonErr(status, msgNull), stack[1].array[1])
          /\ freeLog' = IF status # "ok"
                        THEN freeLog \o CleanupContainers(stack)
                        ELSE freeLog
  /\ pc' = "done"
  /\ UNCHANGED <<source, ystate, events, stack, ret, lastCopy, lastClosed>>
  /\ UNCHANGED shared

Next ==
  \/ ParseJsonStart
  \/ HandleNull
  \/ HandleBoolean
  \/ HandleInteger
  \/ HandleDouble
  \/ HandleString
  \/ HandleMapKey
  \/ HandleStartMap
  \/ HandleStartArray
  \/ HandleEndMap
  \/ HandleEndArray
  \/ ParseJsonFinish

\* decode/1 fed by yajl
Spec == Init /\ [][Next]_vars

\* the callbacks driven by a source that does not check keys and markers
SpecRaw == InitRaw /\ [][Next]_vars


(***************************************************************************)
(* Two decode_1 calls on two scheduler threads.  Each call has its own     *)
(* state_t, dummy container and term on its stack (decode_1); the static   *)
(* alloc_funcs is the one object both calls reach.  Each call is given a   *)
(* document, as the events yajl makes of it, and runs line by line:        *)
(* alloc_funcs.ctx = st->env, yajl_alloc, one callback per event, the end  *)
(* of parse_json.  Every allocation succeeds here.                         *)
(***************************************************************************)
Calls == {1, 2}

DocInt == <<Ev("integer", <<>>, 1, 0)>>

DocArray == <<Ev("start_array", <<>>, 0, 0), Ev("null", <<>>, 0, 0),
              Ev("end_array", <<>>, 0, 0)>>

DocMap == <<Ev("start_map", <<>>, 0, 0), Ev("map_key", KeyK, 0, 0),
            Ev("string", <<97, 0, 98>>, 0, 0), Ev("end_map", <<>>, 0, 0)>>

DocOpen == <<Ev("start_array", <<>>, 0, 0), Ev("start_map", <<>>, 0, 0)>>

Docs == {DocInt, DocArray, DocMap, DocOpen}

\* yajl's state after it has made these events
RECURSIVE YStateAfter(_, _)
YStateAfter(doc, n) ==
  IF n = 0 THEN <<"start">> ELSE YNext(YStateAfter(doc, n - 1), doc[n])

\* what a call is given: the events of its document, whether yajl_parse
\* accepts what follows them, whether yajl_get_error returns NULL
CallInputs ==
  {in \in [doc : Docs, parseOk : BOOLEAN, msgNull : BOOLEAN] :
     in.msgNull => ParseStatus(in.parseOk, 1, YStateAfter(in.doc, Len(in.doc))) # "ok"}

\* mutant: the allocation is made in the environment ctx, which only the
\* thread of its own call may use
AllocFuncOwnEnv(ctx, self) == [null |-> ctx # Env(self)]

\* alloc_func, realloc_func, free_func as run by thread self: ctx is not
\* looked at, the block comes from enif_alloc
AllocFunc(ctx, self) == [null |-> FALSE]

\* the callback for event e, the at-th of its call, on the chain stk
Callback(stk, e, at) ==
  LET n == Len(stk)
      added(t) == LET r == AddElement(stk, t, FALSE)
                  IN [crash |-> r.ub, ret |-> 1, stack |-> r.stack, frees |-> <<>>]
  IN CASE e.k = "null" -> added(MkAtom("undefined"))
       [] e.k = "boolean" -> added(MkAtom(IF e.n # 0 THEN "true" ELSE "false"))
       [] e.k = "integer" -> added(MkLong(ToLong(e.n)))
       [] e.k = "double" -> added(MkDouble(e.n))
       [] e.k = "string" -> added(MkBinary(Strncpy(e.s, Len(e.s))))
       [] e.k = "map_key" ->
            LET r == AddElement(stk, MkBinary(Strncpy(e.s, Len(e.s))), FALSE)
            IN [crash |-> r.ub, ret |-> 1, stack |-> SetKey(r.stack), frees |-> <<>>]
       [] e.k \in StartKinds ->
            [crash |-> FALSE, ret |-> 1,
             stack |-> Append(stk, NewFrame(at, FALSE)), frees |-> <<>>]
       [] OTHER ->
            LET c == stk[n]
                r == AddElement(SubSeq(stk, 1, n - 1), EndTerm(c), FALSE)
            IN [crash |-> c.id = 0 \/ r.ub, ret |-> 1, stack |-> r.stack,
                frees |-> FreeCalls(c)]

\* a call before its first line
NewCall(in) ==
  [pc |-> "init", in |-> in, pos |-> 0, yh |-> [null |-> TRUE, ctx |-> NullCtx],
   stack |-> <<RootFrame>>, ret |-> 1, freeLog |-> <<>>, result |-> NoResult]

InitTwo ==
  /\ pc = "init"
  /\ source = "yajl"
  /\ ystate = <<"start">>
  /\ events = <<>>
  /\ stack = <<RootFrame>>
  /\ ys = "none"
  /\ ret = 1
  /\ freeLog = <<>>
  /\ lastCopy = NoCopy
  /\ lastClosed = NoClosed
  /\ result = NoResult
  /\ alloc_funcs = [ctx |-> NullCtx]
  /\ ctxAccess = {}
  /\ calls \in [Calls -> {NewCall(in) : in \in CallInputs}]

\* line 121: alloc_funcs.ctx = st->env
CallSetCtx(p) ==
  /\ calls[p].pc = "init"
  /\ alloc_funcs' = [alloc_funcs EXCEPT !.ctx = Env(p)]
  /\ ctxAccess' = ctxAccess \cup {Access(p, "write")}
  /\ calls' = [calls EXCEPT ![p].pc = "alloc"]
  /\ UNCHANGED solo

\* line 122: yajl_alloc takes the handle from the malloc of alloc_funcs and
\* copies alloc_funcs, ctx included, into it; with a NULL handle yajl_config
\* writes through NULL
CallYajlAlloc(p) ==
  /\ calls[p].pc = "alloc"
  /\ LET blk == AllocFunc(alloc_funcs.ctx, p)
     IN calls' = [calls EXCEPT ![p].yh = [null |-> blk.null, ctx |-> alloc_funcs.ctx],
                               ![p].pc = IF blk.null THEN "crashed" ELSE "parse"]
  /\ ctxAccess' = ctxAccess \cup {Access(p, "read")}
  /\ UNCHANGED alloc_funcs
  /\ UNCHANGED solo

\* yajl_parse calls the callback of the next event
CallCallback(p) ==
  /\ calls[p].pc = "parse"
  /\ calls[p].pos < Len(calls[p].in.doc)
  /\ LET c == calls[p]
         r == Callback(c.stack, c.in.doc[c.pos + 1], c.pos + 1)
     IN calls' = [calls EXCEPT
                    ![p].pos = c.pos + 1,
                    ![p].stack = r.stack,
                    ![p].ret = r.ret,
                    ![p].freeLog = c.freeLog \o r.frees,
                    ![p].pc = IF r.crash THEN "crashed"
                              ELSE IF r.ret = 1 THEN "parse" ELSE "finish"]
  /\ UNCHANGED <<alloc_funcs, ctxAccess>>
  /\ UNCHANGED solo

\* the rest of parse_json and the return of decode_1
CallFinish(p) ==
  /\ \/ calls[p].pc = "finish"
     \/ calls[p].pc = "parse" /\ calls[p].pos = Len(calls[p].in.doc)
  /\ LET c == calls[p]
         status == ParseStatus(c.in.parseOk, c.ret, YStateAfter(c.in.doc, c.pos))
     IN calls' = [calls EXCEPT
                    ![p].result = Decode1Return(ParseJsonErr(status, c.in.msgNull),
                                                c.stack[1].array[1]),
                    ![p].freeLog = IF status # "ok"
                                   THEN c.freeLog \o CleanupContainers(c.stack)
                                   ELSE c.freeLog,
                    ![p].pc = "done"]
  /\ UNCHANGED <<alloc_funcs, ctxAccess>>
  /\ UNCHANGED solo

NextTwo ==
  \E p \in Calls :
    \/ CallSetCtx(p)
    \/ CallYajlAlloc(p)
    \/ CallCallback(p)
    \/ CallFinish(p)

\* two decode/1 calls at the same time
SpecTwo == InitTwo /\ [][NextTwo]_vars


(***************************************************************************)
(* Properties.                                                             *)
(***************************************************************************)
Last(seq) == seq[Len(seq)]

Returned1 == pc = "done"

NoOom == \A i \in DOMAIN events : events[i].oom = 0

\* C1: decode is all-or-nothing.  When decode_1 has returned, the result is
\* either {ok, Term}, where the parse ended with status ok, every container
\* is closed and Term is the one value of the top level frame, or
\* {error, Msg} with a message and no term; and whenever the parse ended
\* with an error or a callback returned 0, the result is the error.
C1_AllOrNothing ==
  Returned1 =>
    /\ result.tag \in {"ok", "error"}
    /\ result.tag = "ok" =>
         /\ ys = "ok" /\ ret = 1
         /\ ystate = <<"complete">>
         /\ Len(stack) = 1 /\ stack[1].count = 1
         /\ result.term = stack[1].array[1]
         /\ result.term.t \notin {"garbage", "none"}
         /\ result.msg = ""
    /\ result.tag = "error" => result.term = NoTerm /\ result.msg # ""
    /\ (ys # "ok" \/ ret = 0) => result.tag = "error"

\* C1 witness: a callback returned 0 inside a container that already holds
\* an element, and decode_1 returned the error.
C1_Witness ==
  /\ Returned1 /\ result.tag = "error" /\ ret = 0
  /\ Len(stack) > 1 /\ Top(stack).count > 0

\* C4: the stack is the top level frame alone before the first event and
\* after a successful decode; success is reported only with the stack down
\* to the top level frame and one value in it; a decode that ends with more
\* frames, or with the top level frame empty, returns an error.
C4_RootOnly ==
  /\ events = <<>> => (Len(stack) = 1 /\ stack[1].id = 0 /\ stack[1].count = 0)
  /\ (Returned1 /\ result.tag = "ok") =>
       (Len(stack) = 1 /\ stack[1].id = 0 /\ stack[1].count = 1)
  /\ (Returned1 /\ (Len(stack) > 1 \/ stack[1].count = 0)) => result.tag = "error"

\* C4 witness: the empty input and an input that ends inside a container
\* are both reachable; the state is one of the two, rejected.
C4_Witness ==
  /\ Returned1 /\ result.tag = "error" /\ ys = "error" /\ ret = 1
  /\ events = <<>> \/ (Len(stack) > 1 /\ Last(events).k = "null")

Freed(what, id) == \E i \in DOMAIN freeLog : freeLog[i] = [what |-> what, id |-> id]

\* C7: when decode_1 returns an error, every frame on the stack other than
\* the top level one has had its elements array (if it has one) and its
\* frame released, and nothing of the top level frame was released.
C7_FailureReleasesFrames ==
  (Returned1 /\ result.tag = "error") =>
    /\ \A i \in 2..Len(stack) :
         /\ Freed("frame", stack[i].id)
         /\ ~stack[i].isnull => Freed("array", stack[i].id)
    /\ ~Freed("frame", 0) /\ ~Freed("array", 0)

\* C7 witness: a failure with three frames open above the top level one.
C7_Witness ==
  Returned1 /\ result.tag = "error" /\ Len(stack) = 4


(***************************************************************************)
(* The reference construction: the value of a complete event sequence by   *)
(* recursive descent.  exact says whether a string is the bytes of the     *)
(* event or what strncpy makes of them.  ParseValue(evs, i, exact) is the  *)
(* value that starts at event i and the number of the event after it.      *)
(***************************************************************************)
RefBytes(e, exact) == IF exact THEN e.s ELSE Strncpy(e.s, Len(e.s))

RefScalar(e, exact) ==
  CASE e.k = "null" -> MkAtom("undefined")
    [] e.k = "boolean" -> MkAtom(IF e.n # 0 THEN "true" ELSE "false")
    [] e.k = "integer" -> MkLong(e.n)
    [] e.k = "double" -> MkDouble(e.n)
    [] OTHER -> MkBinary(RefBytes(e, exact))

\* a key whose buffer allocation failed is an indeterminate term
RefKey(e, exact) == IF e.oom = 1 THEN Garbage ELSE MkBinary(RefBytes(e, exact))

RECURSIVE ParseValue(_, _, _), ParseItems(_, _, _, _), ParsePairs(_, _, _, _)
ParseValue(evs, i, exact) ==
  CASE evs[i].k = "start_array" -> ParseItems(evs, i + 1, <<>>, exact)
    [] evs[i].k = "start_map" -> ParsePairs(evs, i + 1, <<>>, exact)
    [] OTHER -> [v |-> RefScalar(evs[i], exact), next |-> i + 1]

ParseItems(evs, i, acc, exact) ==
  IF evs[i].k = "end_array"
  THEN [v |-> [t |-> "list", v |-> acc], next |-> i + 1]
  ELSE LET r == ParseValue(evs, i, exact)
       IN ParseItems(evs, r.next, Append(acc, r.v), exact)

ParsePairs(evs, i, acc, exact) ==
  IF evs[i].k = "end_map"
  THEN [v |-> [t |-> "list", v |-> acc], next |-> i + 1]
  ELSE LET r == ParseValue(evs, i + 1, exact)
       IN ParsePairs(evs, r.next, Append(acc, MkTuple2(RefKey(evs[i], exact), r.v)), exact)

RefValue(evs, exact) == ParseValue(evs, 1, exact).v

\* a complete well-formed event sequence was delivered
WellFormedComplete ==
  source = "yajl" /\ pc \in {"parse", "done"} /\ ret = 1 /\ ystate = <<"complete">>

\* C2: after the last event of a well-formed event sequence (no allocation
\* failing), the value in the top level frame is the value the reference
\* construction builds from the events, every scalar being itself and every
\* string the bytes of its event.
C2_TreeEqualsReference ==
  (WellFormedComplete /\ NoOom) =>
    (stack[1].count = 1 /\ stack[1].array[1] = RefValue(events, TRUE))

\* The same with every string being what strncpy copies of its event.
TreeEqualsReferenceOfCopies ==
  WellFormedComplete =>
    (stack[1].count = 1 /\ stack[1].array[1] = RefValue(events, FALSE))

\* C10: the binary that on_string and on_map_key store has the length of
\* the event's byte sequence and the same byte at every position.
C10_RawBytes ==
  lastCopy.done =>
    /\ Len(lastCopy.dst) = Len(lastCopy.src)
    /\ \A i \in 1..Len(lastCopy.src) : lastCopy.dst[i] = lastCopy.src[i]

\* the container kind a term stands for in the representation the source
\* documents: {json()} for an array, [{binary(), json()}] for a map
TermKind(t) ==
  IF t.t = "tuple" THEN "array" ELSE IF t.t = "list" THEN "map" ELSE "scalar"

\* C8: the term made by closing a frame tells how the frame was opened: an
\* array term for a frame opened by on_start_array, a map term for a frame
\* opened by on_start_map, also when the frame holds no element.
C8_KindRecoverable ==
  lastClosed.kind \in {"array", "map"} => TermKind(lastClosed.term) = lastClosed.kind

\* C5: when an allocation fails in a callback, the callback returns 0, the
\* failed allocation's result is not used, and decode_1 returns an error.
C5_AllocFailureReported ==
  (\E i \in DOMAIN events : events[i].oom # 0) =>
    /\ ret = 0
    /\ pc \in {"finish", "done"}
    /\ pc = "done" => result.tag = "error"

\* the term closed last is the newest element of the frame below
AppendedToParent ==
  LET c == Top(stack)
  IN /\ c.count > 0
     /\ \/ c.array[c.count] = lastClosed.term
        \/ c.array[c.count].t = "tuple" /\ c.array[c.count].v[2] = lastClosed.term

\* C6: closing a frame whose key flag is set fails: the callback returns 0
\* and no finished value is added to the frame below.
C6_PendingKeyCloseFails ==
  (/\ pc # "crashed" /\ events # <<>>
   /\ Last(events).k \in EndKinds
   /\ lastClosed.at = Len(events) /\ lastClosed.key # 0) =>
    (ret = 0 /\ ~AppendedToParent)


(***************************************************************************)
(* The direct key events of the container that the last event closed: the  *)
(* events are read backwards from the end marker to its start marker, and  *)
(* depth counts the nested containers that are open on the way.            *)
(***************************************************************************)
RECURSIVE KeysBackFrom(_, _, _, _)
KeysBackFrom(evs, i, depth, acc) ==
  IF i < 1 THEN acc
  ELSE IF evs[i].k \in EndKinds THEN KeysBackFrom(evs, i - 1, depth + 1, acc)
  ELSE IF evs[i].k \in StartKinds
       THEN IF depth = 0 THEN acc ELSE KeysBackFrom(evs, i - 1, depth - 1, acc)
  ELSE IF evs[i].k = "map_key" /\ depth = 0
       THEN KeysBackFrom(evs, i - 1, depth, <<i>> \o acc)
  ELSE KeysBackFrom(evs, i - 1, depth, acc)

ClosedKeyIdx(evs) == KeysBackFrom(evs, Len(evs) - 1, 0, <<>>)

\* the last callback was on_end_map and it returned
MapJustClosed ==
  /\ source = "yajl" /\ pc \in {"parse", "done"} /\ ret = 1
  /\ events # <<>> /\ Last(events).k = "end_map"

\* C3: a finished object is never deduplicated.  When a map frame that got
\* n key events is closed, the finished term is the list of n pairs, the
\* i-th pair holding the i-th key (as stored) and, when the i-th value is a
\* scalar, that scalar; this term is what the frame below receives.
C3_NoDedup ==
  MapJustClosed =>
    LET idx == ClosedKeyIdx(events)
        t == lastClosed.term
    IN /\ lastClosed.at = Len(events)
       /\ t.t = "list"
       /\ Len(t.v) = Len(idx)
       /\ \A j \in 1..Len(idx) :
            /\ j <= Len(t.v)
            /\ t.v[j].t = "tuple"
            /\ t.v[j].v[1] = RefKey(events[idx[j]], FALSE)
            /\ events[idx[j] + 1].k \in ValueKinds =>
                 t.v[j].v[2] = RefScalar(events[idx[j] + 1], FALSE)
       /\ AppendedToParent

\* C3 witness: an object was closed whose first two pairs have the same key
\* and different values.
C3_Witness ==
  /\ MapJustClosed
  /\ Len(lastClosed.term.v) >= 2
  /\ lastClosed.term.v[1].v[1] = lastClosed.term.v[2].v[1]
  /\ lastClosed.term.v[1].v[2] # lastClosed.term.v[2].v[2]

(***************************************************************************)
(* The containers a prefix of events leaves open, built without capacity   *)
(* and without the key flag: items are the finished elements, pend is the  *)
(* key (if any) that waits for its value.                                  *)
(***************************************************************************)
RefEmpty == [items |-> <<>>, pend |-> <<>>]

RefPut(f, v) ==
  [items |-> Append(f.items, IF f.pend # <<>> THEN MkTuple2(f.pend[1], v) ELSE v),
   pend |-> <<>>]

RECURSIVE RefFrames(_)
RefFrames(evs) ==
  IF evs = <<>> THEN <<RefEmpty>>
  ELSE LET prev == RefFrames(SubSeq(evs, 1, Len(evs) - 1))
           e == evs[Len(evs)]
           n == Len(prev)
       IN CASE e.k \in ValueKinds ->
                 [prev EXCEPT ![n] = RefPut(prev[n], RefScalar(e, FALSE))]
            [] e.k = "map_key" ->
                 [prev EXCEPT ![n].pend = <<RefKey(e, FALSE)>>]
            [] e.k \in StartKinds -> Append(prev, RefEmpty)
            [] OTHER ->
                 [i \in 1..(n - 1) |->
                    IF i = n - 1
                    THEN RefPut(prev[i], [t |-> "list", v |-> prev[n].items])
                    ELSE prev[i]]

\* C9: every container holds exactly the values it received, in arrival
\* order, whatever their number: after each callback, every frame's count
\* is the number of its elements so far and slot j holds the j-th of them,
\* so an element stored before the array was grown is found unchanged, in
\* its place, after it.
C9_CountAndOrder ==
  (source = "yajl" /\ pc \in {"parse", "done"} /\ ret = 1) =>
    LET ref == RefFrames(events)
    IN /\ Len(stack) = Len(ref)
       /\ \A i \in 1..Len(ref) :
            LET want == ref[i].items \o ref[i].pend
            IN /\ i <= Len(stack)
               /\ stack[i].count = Len(want)
               /\ \A j \in 1..Len(want) :
                    j <= Len(stack[i].array) /\ stack[i].array[j] = want[j]

\* C9 witness: a container that was grown twice, at its 17th and at its
\* 33rd element, and holds 33 elements.
C9_Witness ==
  /\ pc = "parse" /\ ret = 1
  /\ \E i \in 2..Len(stack) : stack[i].count = 33 /\ stack[i].arraysz = 64


(***************************************************************************)
(* Steps of the callbacks, as seen from outside.                           *)
(***************************************************************************)
\* a callback was called in this step and returned 1
CallbackStep == events' # events /\ pc' = "parse"

ScalarStep == CallbackStep /\ Last(events').k \in ValueKinds

KeyStep == CallbackStep /\ Last(events').k = "map_key"

StartStep == CallbackStep /\ Last(events').k \in StartKinds

EndStep == CallbackStep /\ Last(events').k \in EndKinds

\* frame d is frame c after value v was appended to it
Appended(c, d, v) ==
  IF c.key # 0
  THEN /\ d.count = c.count
       /\ d.array[c.count] = MkTuple2(c.array[c.count], v)
       /\ \A j \in 1..(c.count - 1) : d.array[j] = c.array[j]
       /\ d.key = 0
  ELSE /\ d.count = c.count + 1
       /\ d.array[c.count + 1] = v
       /\ \A j \in 1..c.count : d.array[j] = c.array[j]
       /\ d.key = 0

\* C12: append has two outcomes.  With the key flag set, the last slot (the
\* key k) becomes the pair (k, value), the count and the earlier slots stay
\* and the flag is cleared; otherwise the value goes into a new last slot,
\* the count grows by one, the earlier slots stay and the flag stays clear.
\* This holds of every value a scalar callback appends and of every
\* finished container that on_end_* appends to the frame below.
C12_AppendTwoOutcomes ==
  [][/\ ScalarStep =>
          /\ Len(stack') = Len(stack)
          /\ Top(stack').id = Top(stack).id
          /\ Appended(Top(stack), Top(stack'), RefScalar(Last(events'), FALSE))
     /\ EndStep =>
          /\ Len(stack') = Len(stack) - 1
          /\ Top(stack').id = stack[Len(stack) - 1].id
          /\ Appended(stack[Len(stack) - 1], Top(stack'),
                      [t |-> "list", v |-> SubSeq(Top(stack).array, 1, Top(stack).count)])
    ]_vars

\* C12 witness: both outcomes happened in one container: a scalar was fused
\* with a key in a map that already holds a pair, inside an array that got
\* a new slot before.
C12_Witness ==
  /\ pc = "parse" /\ ret = 1 /\ events # <<>> /\ Last(events).k \in ValueKinds
  /\ Len(stack) = 3
  /\ stack[2].count = 1 /\ stack[2].array[1].t = "atom"
  /\ stack[3].count = 2 /\ stack[3].array[2].t = "tuple" /\ stack[3].key = 0

\* C13: with a correct Event Source, a frame's key flag is set exactly when
\* the frame's newest slot is a bare key that waits for its value, i.e. the
\* last thing the source gave this frame is a key.  Then the frame holds at
\* least one element, and that last slot is no pair; the top level frame's
\* flag is never set; a map frame whose flag is clear holds pairs only.
C13_PendingKeyInvariant ==
  /\ Len(ystate) = Len(stack)
  /\ \A i \in 1..Len(stack) :
       /\ i <= Len(ystate)
       /\ stack[i].key # 0 <=> ystate[i] = "map_val"
       /\ stack[i].key # 0 =>
            /\ stack[i].count >= 1
            /\ stack[i].array[stack[i].count].t \in {"binary", "garbage"}
       /\ (stack[i].key = 0 /\ ystate[i] = "map_key") =>
            \A j \in 1..stack[i].count : stack[i].array[j].t = "tuple"
  /\ stack[1].key = 0

\* C13 witness: a frame below the top waits for the value of its key while
\* the nested container holds elements, and the top frame waits as well.
C13_Witness ==
  /\ pc = "parse" /\ Len(stack) = 3
  /\ stack[2].key = 1 /\ stack[2].count = 2
  /\ stack[3].key = 1 /\ stack[3].count = 1


\* start events minus end events among the events given
Unmatched(evs) ==
  Cardinality({i \in DOMAIN evs : evs[i].k \in StartKinds})
    - Cardinality({i \in DOMAIN evs : evs[i].k \in EndKinds})

\* the frames 1..m are the same before and after the step
SameBelow(m) == \A i \in 1..m : stack'[i] = stack[i]

\* C14: every event changes the stack as its kind allows.  A scalar, string
\* or key event keeps the depth and every frame below the top; a start
\* event pushes one frame with count 0, capacity 16 (with 16 slots when its
\* array was allocated) and a clear key flag and changes no other frame; an
\* end event pops one frame and changes the frame below it only; and the
\* depth is 1 + the number of start events not yet matched by an end event.
C14_FrameEffect ==
  /\ [](pc = "parse" => Len(stack) = 1 + Unmatched(events))
  /\ [][/\ (ScalarStep \/ KeyStep) =>
             /\ Len(stack') = Len(stack)
             /\ SameBelow(Len(stack) - 1)
        /\ StartStep =>
             /\ Len(stack') = Len(stack) + 1
             /\ SameBelow(Len(stack))
             /\ Top(stack').count = 0
             /\ Top(stack').arraysz = InitialSize
             /\ Top(stack').key = 0
             /\ Last(events').oom = 0 => Len(Top(stack').array) = InitialSize
        /\ EndStep =>
             /\ Len(stack') = Len(stack) - 1
             /\ SameBelow(Len(stack) - 2)
             /\ stack'[Len(stack) - 1] # stack[Len(stack) - 1]
       ]_vars

\* C14 witness: an end event has popped a frame of a stack of depth 4, and
\* start events were matched before.
C14_Witness ==
  /\ pc = "parse" /\ events # <<>> /\ Last(events).k \in EndKinds
  /\ Len(stack) = 3 /\ Len(events) >= 6
  /\ Top(stack).count >= 2

\* C15: a container that is the value of a key is fused with that key.
\* on_map_key(k) puts k in a new last slot of frame P and sets P's flag;
\* while the nested container is open P does not change (flag set, count
\* and slots as they were); the matching end event turns P's last slot
\* into the pair (k, finished container), with the count as it was right
\* after on_map_key(k), the earlier slots unchanged and the flag cleared.
C15_NestedValueFused ==
  [][/\ KeyStep =>
          LET P == Top(stack)
              Q == Top(stack')
          IN /\ Q.count = P.count + 1
             /\ Q.array[Q.count] = RefKey(Last(events'), FALSE)
             /\ Q.key = 1
     /\ \A i \in 1..Len(stack) :
          (i < Len(stack) /\ i < Len(stack') /\ stack[i].key # 0) =>
            stack'[i] = stack[i]
     /\ (EndStep /\ stack[Len(stack) - 1].key # 0) =>
          LET n == Len(stack)
              c == stack[n]
              P == stack[n - 1]
              Q == stack'[n - 1]
              kev == events[c.id - 1]
          IN /\ kev.k = "map_key"
             /\ P.array[P.count] = RefKey(kev, FALSE)
             /\ Q.count = P.count
             /\ Q.array[P.count] =
                  MkTuple2(RefKey(kev, FALSE),
                           [t |-> "list", v |-> SubSeq(c.array, 1, c.count)])
             /\ \A j \in 1..(P.count - 1) : Q.array[j] = P.array[j]
             /\ Q.key = 0
    ]_vars

\* C15 witness: a nested container with elements was closed and is now the
\* value of the second key of its parent.
C15_Witness ==
  /\ pc = "parse" /\ events # <<>> /\ Last(events).k \in EndKinds
  /\ Len(stack) = 2 /\ stack[2].count = 2 /\ stack[2].key = 0
  /\ stack[2].array[2].t = "tuple"
  /\ stack[2].array[2].v[2] = lastClosed.term
  /\ lastClosed.n >= 1

\* add_element is entered with the top level frame on top in this step
\* (handle_string returns before it when its binary was not allocated)
AppendOnRoot ==
  /\ events' # events
  /\ Last(events').oom # 1
  /\ \/ Len(stack) = 1 /\ Last(events').k \in ValueKinds
     \/ Len(stack) = 2 /\ Last(events').k \in EndKinds

\* C16: the top level frame keeps its one slot.  Its capacity is 1 and its
\* storage is the one slot it started with in every state, its count never
\* exceeds 1, and whenever add_element is entered with it on top its count
\* is 0, so that the value is stored without a reallocation (which the
\* model shows as a crash, the storage being no enif_alloc block).
C16_RootNeverGrown ==
  /\ [](/\ stack[1].id = 0
        /\ stack[1].arraysz = RootSize
        /\ Len(stack[1].array) = RootSize
        /\ ~stack[1].isnull
        /\ stack[1].count <= 1)
  /\ [][AppendOnRoot =>
          /\ stack[1].count = 0
          /\ pc' = "parse"
          /\ stack'[1].count = 1
          /\ stack'[1].arraysz = RootSize]_vars

\* C16 witness: a container was closed into the top level frame, which now
\* holds its one value.
C16_Witness ==
  /\ pc = "parse" /\ Len(stack) = 1 /\ stack[1].count = 1
  /\ stack[1].array[1].t = "list" /\ Len(stack[1].array[1].v) >= 2


\* the number of enif_free calls on this block of frame id
FreeCount(what, id) ==
  Cardinality({j \in DOMAIN freeLog : freeLog[j] = [what |-> what, id |-> id]})

OnStack(id) == \E i \in DOMAIN stack : stack[i].id = id

\* the frames that handle_start created: one per start event, named by the
\* position of the event
CreatedFrames == {i \in DOMAIN events : events[i].k \in StartKinds}

\* C17: every frame a start event created is released exactly once by the
\* time decode_1 returns, with or without an error.  While the parse runs a
\* frame is either on the stack and not released, or it was popped by its
\* end event and released there, once; when decode_1 has returned every
\* frame and every elements array that was allocated has been released
\* exactly once, and nothing else was released.
C17_ReleasedExactlyOnce ==
  /\ pc \in {"parse", "finish"} =>
       \A id \in CreatedFrames :
         /\ FreeCount("frame", id) = (IF OnStack(id) THEN 0 ELSE 1)
         /\ FreeCount("array", id) =
              (IF OnStack(id) \/ events[id].oom = 2 THEN 0 ELSE 1)
  /\ pc = "done" =>
       \A id \in CreatedFrames :
         /\ FreeCount("frame", id) = 1
         /\ FreeCount("array", id) = (IF events[id].oom = 2 THEN 0 ELSE 1)
  /\ \A j \in DOMAIN freeLog : freeLog[j].id \in CreatedFrames

\* C17 witness: decode_1 returned an error after one frame was released by
\* its end event and two more, still open, by cleanup_containers.
C17_Witness ==
  /\ pc = "done" /\ result.tag = "error"
  /\ Len(stack) = 3
  /\ lastClosed.kind # "none"
  /\ Cardinality(CreatedFrames) = 3

\* the capacities a frame made by handle_start can have
Capacities == {InitialSize * (2 ^ k) : k \in 0..4}

\* C18: in every frame 0 <= count <= capacity, a frame made by a start
\* event has a capacity of 16 * 2^k and (unless its allocation failed) as
\* many slots, so that every slot add_element has written lies below the
\* capacity; and a capacity changes by doubling only.
C18_CountWithinCapacity ==
  /\ [](\A i \in DOMAIN stack :
          /\ 0 <= stack[i].count
          /\ stack[i].count <= stack[i].arraysz
          /\ ~stack[i].isnull => Len(stack[i].array) = stack[i].arraysz
          /\ i > 1 => stack[i].arraysz \in Capacities)
  /\ [][\A i \in DOMAIN stack :
          (i \in DOMAIN stack' /\ stack'[i].id = stack[i].id) =>
            stack'[i].arraysz \in {stack[i].arraysz, 2 * stack[i].arraysz}]_vars

\* C18 witness: a frame is full after it was grown twice.
C18_Witness ==
  \E i \in DOMAIN stack :
    stack[i].arraysz = 4 * InitialSize /\ stack[i].count > 2 * InitialSize

\* C19: the capacity of a frame changes only when a new slot is appended to
\* a frame whose count equals its capacity; a value that is fused with a
\* pending key leaves the capacity as it is.
C19_GrowthOnlyForNewSlot ==
  [][\A i \in DOMAIN stack :
       (i \in DOMAIN stack' /\ stack'[i].id = stack[i].id
          /\ stack'[i].arraysz # stack[i].arraysz) =>
         /\ stack[i].key = 0
         /\ stack[i].count = stack[i].arraysz
         /\ stack'[i].count = stack[i].count + 1]_vars


\* C11: two decode calls share no mutable setup state: what one call writes
\* while it sets up its parser and allocator context, no other call reads
\* or writes.  Here: every access to alloc_funcs.ctx is by the one call
\* that wrote it.
C11_NoSharedSetupState ==
  \A a, b \in ctxAccess : a.op = "write" => b.call = a.call

\* a call left to itself: the lines of parse_json in order, with the
\* context in alloc_funcs its own
RECURSIVE RunCallbacks(_, _)
RunCallbacks(doc, n) ==
  IF n = 0
  THEN [crash |-> FALSE, ret |-> 1, stack |-> <<RootFrame>>, freeLog |-> <<>>]
  ELSE LET st == RunCallbacks(doc, n - 1)
           r == Callback(st.stack, doc[n], n)
       IN IF st.crash \/ st.ret = 0
          THEN st
          ELSE [crash |-> r.crash, ret |-> r.ret, stack |-> r.stack,
                freeLog |-> st.freeLog \o r.frees]

Alone(in, p) ==
  LET blk == AllocFunc(Env(p), p)
      st == RunCallbacks(in.doc, Len(in.doc))
      status == ParseStatus(in.parseOk, st.ret, YStateAfter(in.doc, Len(in.doc)))
  IN IF blk.null \/ st.crash
     THEN [returned |-> FALSE, result |-> NoResult, freeLog |-> <<>>]
     ELSE [returned |-> TRUE,
           result |-> Decode1Return(ParseJsonErr(status, in.msgNull), st.stack[1].array[1]),
           freeLog |-> IF status # "ok"
                       THEN st.freeLog \o CleanupContainers(st.stack)
                       ELSE st.freeLog]

\* C20: what a decode call returns does not depend on the other call that
\* runs at the same time.  In every interleaving a call that has come to
\* its end, by returning or by dying, has returned exactly if it returns
\* when run alone, and then with the same result and the same blocks
\* released; this although its yajl handle may hold the context that the
\* other call wrote to alloc_funcs.
C20_ResultIndependent ==
  \A p \in DOMAIN calls :
    /\ calls[p].pc \in {"done", "crashed"} =>
         /\ Alone(calls[p].in, p).returned <=> calls[p].pc = "done"
         /\ calls[p].pc = "done" =>
              /\ calls[p].result = Alone(calls[p].in, p).result
              /\ calls[p].freeLog = Alone(calls[p].in, p).freeLog
    /\ calls[p].pc # "init" => alloc_funcs.ctx \in {Env(q) : q \in DOMAIN calls}

\* C20 witness: both calls have returned, the first one a map and the
\* second one an error, and the handle of the first call held the context
\* of the second.
C20_Witness ==
  /\ DOMAIN calls = Calls
  /\ calls[1].pc = "done" /\ calls[2].pc = "done"
  /\ calls[1].yh.ctx = Env(2)
  /\ calls[1].result.tag = "ok" /\ calls[1].result.term.t = "list"
  /\ Len(calls[1].result.term.v) = 1
  /\ calls[2].result.tag = "error" /\ calls[2].freeLog # <<>>

\* the callbacks of the two calls are the callbacks of the one call
CallbackIsHandler ==
  [][(CallbackStep /\ Last(events').oom = 0) =>
       stack' = Callback(stack, Last(events'), Len(events')).stack]_vars

====
